---- MODULE Spec2Model ----
\* A model of linter.py: the discovery of Power BI items under root folders,
\* the two linters (Tabular Editor on semantic models, PBI Inspector on reports),
\* the normalisation of their outputs into a score, the log_linter reporter and
\* the process-wide SUCCESS flag that decides the exit status.
\*
\* Scores are kept in hundredths (8.00 is 800), which is the precision
\* round(score, 2) leaves. Paths are sequences of directory names below the
\* working directory; << >> is Path('.').
EXTENDS Integers, Sequences, FiniteSets, TLC

VARIABLES
    ftype,        \* file system: directory -> metadata.type of its .platform, "None" without one
    n_paths,      \* main: len(paths), the number of root paths of sys.argv
    idx,          \* main: position of the `for path in paths` loop
    missing,      \* main: some root path so far did not exist
    pc,           \* main: where the process is
    items_dict,   \* run_linter: the grouping being reviewed
    todo,         \* run_linter: folders of items_dict not yet reviewed
    models,       \* run_linter: SemanticModel items of the current folder still to lint
    reports,      \* run_linter: Report items of the current folder still to lint
    SUCCESS,      \* the global SUCCESS
    last,         \* what the latest step logged
    attempted,    \* run_linter: the items a linter has been called on
    failed,       \* run_linter: the attempted ones whose linter raised inside the reporter
    discovered,   \* run_linter: the items it set out to review
    exit_status,  \* argument of sys.exit, -1 while running
    lintIn,       \* one reporter call: the tool run handed to the linter
    lintOut,      \* one reporter call: what it logged and left in SUCCESS
    scanIn,       \* one scan: path, max_depth and the enumeration order
    scanOut,      \* one scan: result of list_platform_folders
    groupOut      \* one grouping: result of list_items

vars == <<ftype, n_paths, idx, missing, pc, items_dict, todo, models, reports, SUCCESS, last,
          attempted, failed, discovered, exit_status, lintIn, lintOut, scanIn, scanOut, groupOut>>

----
\* Bounds of the model.

MaxResults == 2     \* records in a PBI Inspector "Results" list
MaxActualLen == 2   \* length of an "Actual" sequence
MaxVisuals == 8     \* visuals counted in report.json
MaxStdoutLen == 4   \* tokens of the Tabular Editor stdout
MaxMarked == 2      \* folders holding a .platform file
MaxRoots == 2       \* root paths on the command line
MaxDepthArg == 3    \* max_depth handed to list_platform_folders

----
\* Program constants.

Scale == 100              \* round(score, 2): scores are kept in hundredths
TopScore == 10            \* the 10 of `10 - penalty / n_visuals * 5`
PenaltyFactor == 5        \* the `* 5` of the same line
ExcellentFrom == 8        \* if score >= 8
AttentionFrom == 6        \* elif score >= 6
FailedCount == 5          \* result_count = 5 if result["Actual"] is False
ErrorWeight == 2          \* summary['penalty'] += result_count * 2
ListItemsDepth == 5       \* list_platform_folders(path, max_depth=5)

----
\* Python values.

EmptyDict == [k \in {} |-> 0]

\* A JSON number (in hundredths) or a JSON string that is no number.
JNum(v) == [t |-> "num", v |-> v]
JStr == [t |-> "str", v |-> 0]

\* A producer either returns a dict or raises.
Returned(d) == [raised |-> FALSE, error |-> "none", value |-> d]
Raised(e) == [raised |-> TRUE, error |-> e, value |-> EmptyDict]

\* float(x): a number converts, any other string raises ValueError.
float(x) ==
    IF x.t = "num" THEN [raised |-> FALSE, error |-> "none", v |-> x.v]
    ELSE [raised |-> TRUE, error |-> "ValueError", v |-> 0]

\* round(a / b) to the nearest integer, ties to even, for a >= 0 and b > 0.
round(a, b) ==
    LET q == a \div b
        r == a % b
    IN  IF 2 * r < b THEN q
        ELSE IF 2 * r > b THEN q + 1
        ELSE IF q % 2 = 0 THEN q ELSE q + 1

----
\* Logging utilities: the level logged and the value left in SUCCESS.
\* (Here and below, a definition placed right before the one it resembles is a
\* faulty variant of it, kept to show that the properties tell the two apart.)

log_error_keeps(S) == [level |-> "error", SUCCESS |-> S]

log_error(S) == [level |-> "error", SUCCESS |-> FALSE]

log_exception_keeps(S) == [level |-> "exception", SUCCESS |-> S]

log_exception(S) == [level |-> "exception", SUCCESS |-> FALSE]

----
\* handle_te_output: the stdout of the tool is a sequence of tokens.
\*   "{" and "}"  braces
\*   "n"          text without braces that is no JSON
\*   "s"          the member "score": v, v a number
\*   "j"          the member "score": "abc"
\*   "o"          another member, "x": 1

Tok(c) == [c |-> c, v |-> 0]
ScoreTok(v) == [c |-> "s", v |-> v]

ScoreSamples == {599, 600, 799, 800}

Tokens == {Tok("{"), Tok("}"), Tok("n"), Tok("j"), Tok("o")} \cup {ScoreTok(v) : v \in ScoreSamples}

Positions(s, c) == {i \in 1..Len(s) : s[i].c = c}

Min(S) == CHOOSE x \in S : \A y \in S : x <= y
Max(S) == CHOOSE x \in S : \A y \in S : x >= y

\* re.search(r'\{.*\}', stdout, re.DOTALL): the leftmost "{" that has a "}" after
\* it, up to the last "}" (greedy); << >> when there is no match.
re_search(stdout) ==
    LET opens == Positions(stdout, "{")
        closes == Positions(stdout, "}")
    IN  IF opens = {} \/ closes = {} \/ Max(closes) < Min(opens) THEN << >>
        ELSE SubSeq(stdout, Min(opens), Max(closes))

IsMember(tok) == tok.c \in {"s", "j", "o"}

\* The dict of a member list; a repeated key keeps its last value.
RECURSIVE members_dict(_)
members_dict(ms) ==
    IF ms = << >> THEN EmptyDict
    ELSE LET d == members_dict(SubSeq(ms, 1, Len(ms) - 1))
             m == ms[Len(ms)]
             key == IF m.c = "o" THEN "x" ELSE "score"
             val == IF m.c = "s" THEN JNum(m.v) ELSE IF m.c = "j" THEN JStr ELSE JNum(Scale)
         IN  [k \in DOMAIN d \cup {key} |-> IF k = key THEN val ELSE d[k]]

\* json.loads of the matched span: an object is "{", members, "}".
json_loads(span) ==
    LET inner == SubSeq(span, 2, Len(span) - 1)
    IN  IF \A i \in 1..Len(inner) : IsMember(inner[i])
        THEN Returned(members_dict(inner))
        ELSE Raised("JSONDecodeError")

handle_te_output(stdout) ==
    LET match == re_search(stdout)
    IN  IF match # << >> THEN json_loads(match)
        ELSE Raised("ValueError")

----
\* model_linter: subprocess.run(..., check=False, timeout=120), then
\* handle_te_output on the completed run, whatever its exit status.

model_linter_checks_exit(run) ==
    IF run.fault = "timeout" THEN Raised("TimeoutExpired")
    ELSE IF run.fault = "oserror" THEN Raised("OSError")
    ELSE IF run.returncode # 0 THEN Raised("CalledProcessError")
    ELSE handle_te_output(run.stdout)

model_linter(run) ==
    IF run.fault = "timeout" THEN Raised("TimeoutExpired")
    ELSE IF run.fault = "oserror" THEN Raised("OSError")
    ELSE handle_te_output(run.stdout)

----
\* handle_pbii_output.

\* result["Actual"]: the boolean false, or a sequence.
ActualFalse == [t |-> "bool", items |-> << >>]
ActualList(s) == [t |-> "list", items |-> s]

result_count(result) ==
    IF result.Actual.t = "bool" THEN FailedCount ELSE Len(result.Actual.items)

result_severity(result) ==
    IF result.LogType = 0 THEN "error"
    ELSE IF result.LogType = 1 THEN "warning"
    ELSE "info"

ZeroSummary == [errors |-> 0, warnings |-> 0, infos |-> 0, penalty |-> 0]

summary_add_unweighted(summary, result) ==
    LET c == result_count(result)
        sev == result_severity(result)
    IN  IF sev = "error"
        THEN [summary EXCEPT !.errors = @ + c, !.penalty = @ + c]
        ELSE IF sev = "warning"
        THEN [summary EXCEPT !.warnings = @ + c, !.penalty = @ + c]
        ELSE [summary EXCEPT !.infos = @ + c]

\* One turn of `for result in results`.
summary_add(summary, result) ==
    LET c == result_count(result)
        sev == result_severity(result)
    IN  IF sev = "error"
        THEN [summary EXCEPT !.errors = @ + c, !.penalty = @ + c * ErrorWeight]
        ELSE IF sev = "warning"
        THEN [summary EXCEPT !.warnings = @ + c, !.penalty = @ + c]
        ELSE [summary EXCEPT !.infos = @ + c]

RECURSIVE summarize(_)
summarize(results) ==
    IF results = << >> THEN ZeroSummary
    ELSE summary_add(summarize(SubSeq(results, 1, Len(results) - 1)), results[Len(results)])

pbii_score_unclamped(penalty, n_visuals) ==
    IF n_visuals = 0 THEN 0
    ELSE LET num == TopScore * Scale * n_visuals - PenaltyFactor * Scale * penalty
         IN  IF num >= 0 THEN round(num, n_visuals) ELSE 0 - round(0 - num, n_visuals)

\* round(max(10 - (penalty / n_visuals * 5), 0) if n_visuals else 0, 2), in hundredths.
pbii_score(penalty, n_visuals) ==
    IF n_visuals = 0 THEN 0
    ELSE LET num == TopScore * Scale * n_visuals - PenaltyFactor * Scale * penalty
         IN  IF num <= 0 THEN 0 ELSE round(num, n_visuals)

handle_pbii_output(results, n_visuals) ==
    LET summary == summarize(results)
    IN  [errors |-> summary.errors, warnings |-> summary.warnings, infos |-> summary.infos,
         penalty |-> summary.penalty, objects |-> n_visuals,
         score |-> JNum(pbii_score(summary.penalty, n_visuals))]

\* visuals_linter: subprocess.run(..., check=True, timeout=120), the rules file
\* message, the result file, report.json, then handle_pbii_output.
visuals_linter(run) ==
    IF run.fault = "timeout" THEN Raised("TimeoutExpired")
    ELSE IF run.fault = "oserror" THEN Raised("OSError")
    ELSE IF run.returncode # 0 THEN Raised("CalledProcessError")
    ELSE IF run.fault = "rules" THEN Raised("ValueError")
    ELSE IF run.fault = "nofile" THEN Raised("IndexError")
    ELSE IF run.fault = "noreport" THEN Raised("FileNotFoundError")
    ELSE Returned(handle_pbii_output(run.results, run.n_visuals))

----
\* log_linter.wrapper: what one reporter call logs, the value it leaves in
\* SUCCESS, the error caught inside it and whether one escaped it.

Report(events, S, score, error) ==
    [events |-> events, SUCCESS |-> S, score |-> score, error |-> error, escaped |-> FALSE]

tier_open(score, S) ==
    IF score > ExcellentFrom * Scale THEN Report(<<"info">>, S, score, "none")
    ELSE IF score > AttentionFrom * Scale THEN Report(<<"warning">>, S, score, "none")
    ELSE LET e == log_error(S) IN Report(<<e.level>>, e.SUCCESS, score, "none")

\* The if / elif / else on the score.
tier(score, S) ==
    IF score >= ExcellentFrom * Scale THEN Report(<<"info">>, S, score, "none")
    ELSE IF score >= AttentionFrom * Scale THEN Report(<<"warning">>, S, score, "none")
    ELSE LET e == log_error(S) IN Report(<<e.level>>, e.SUCCESS, score, "none")

caught_reraise(error, S) ==
    [events |-> << >>, SUCCESS |-> S, score |-> -1, error |-> error, escaped |-> TRUE]

\* except Exception as e: log_exception(...)
caught(error, S) ==
    LET e == log_exception(S) IN Report(<<e.level>>, e.SUCCESS, -1, error)

log_linter(produced, S) ==
    IF produced.raised THEN caught(produced.error, S)
    ELSE IF "score" \notin DOMAIN produced.value THEN caught("KeyError", S)
    ELSE LET f == float(produced.value["score"])
         IN  IF f.raised THEN caught(f.error, S) ELSE tier(f.v, S)

----
\* The file system. Directories are paths of names below Path('.'); a name is a
\* number, and a directory is enumerated in ascending or descending name order.
\* Files are not listed: `if item.is_dir()` drops them from every enumeration.

Dirs == {<< >>, <<1>>, <<2>>, <<1, 1>>, <<1, 2>>, <<2, 1>>, <<1, 1, 1>>}

MissingPath == <<0>>

ItemTypes == {"Report", "SemanticModel", "Other"}

\* The markings with at most MaxMarked .platform files.
FileSystems ==
    {f \in [Dirs -> ItemTypes \cup {"None"}] :
        Cardinality({d \in Dirs : f[d] # "None"}) <= MaxMarked}

exists(path) == path \in Dirs

\* (path / '.platform').exists()
has_platform(path) == ftype[path] # "None"

parent(path) == IF path = << >> THEN << >> ELSE SubSeq(path, 1, Len(path) - 1)

IsPrefix(a, b) == Len(a) <= Len(b) /\ SubSeq(b, 1, Len(a)) = a

children(path) == {d \in Dirs : Len(d) = Len(path) + 1 /\ IsPrefix(path, d)}

RECURSIVE in_order(_, _)
in_order(S, rev) ==
    IF S = {} THEN << >>
    ELSE LET first == CHOOSE d \in S : \A e \in S :
                          IF rev THEN e[Len(e)] <= d[Len(d)] ELSE d[Len(d)] <= e[Len(e)]
         IN  <<first>> \o in_order(S \ {first}, rev)

\* path.iterdir(), directories only.
iterdir(path, rev) == in_order(children(path), rev)

\* get_item_info(path): metadata.type of the .platform file, None without one.
get_item_info(path) == ftype[path]

Found(s) == [raised |-> FALSE, error |-> "none", value |-> s]
ScanRaised(e) == [raised |-> TRUE, error |-> e, value |-> << >>]

RECURSIVE list_platform_folders_descends(_, _, _, _)
RECURSIVE subfolders_descends(_, _, _, _)
subfolders_descends(kids, max_depth, rev, unreadable) ==
    IF kids = << >> THEN Found(<< >>)
    ELSE LET head == list_platform_folders_descends(Head(kids), max_depth - 1, rev, unreadable)
             rest == subfolders_descends(Tail(kids), max_depth, rev, unreadable)
         IN  IF head.raised THEN head
             ELSE IF rest.raised THEN rest
             ELSE Found(head.value \o rest.value)

list_platform_folders_descends(path, max_depth, rev, unreadable) ==
    IF max_depth = 0 THEN (IF has_platform(path) THEN Found(<<path>>) ELSE Found(<< >>))
    ELSE IF path \in unreadable THEN ScanRaised("PermissionError")
    ELSE LET below == subfolders_descends(iterdir(path, rev), max_depth, rev, unreadable)
         IN  IF below.raised \/ ~has_platform(path) THEN below
             ELSE Found(<<path>> \o below.value)

RECURSIVE list_platform_folders_skips(_, _, _, _)
RECURSIVE subfolders_skips(_, _, _, _)
subfolders_skips(kids, max_depth, rev, unreadable) ==
    IF kids = << >> THEN Found(<< >>)
    ELSE LET head == IF Head(kids) \in unreadable THEN Found(<< >>)
                     ELSE list_platform_folders_skips(Head(kids), max_depth - 1, rev, unreadable)
             rest == subfolders_skips(Tail(kids), max_depth, rev, unreadable)
         IN  Found(head.value \o rest.value)

list_platform_folders_skips(path, max_depth, rev, unreadable) ==
    IF has_platform(path) THEN Found(<<path>>)
    ELSE IF max_depth = 0 \/ path \in unreadable THEN Found(<< >>)
    ELSE subfolders_skips(iterdir(path, rev), max_depth, rev, unreadable)

\* list_platform_folders(path, max_depth). `rev` is the order in which the file
\* system enumerates a directory and `unreadable` the directories whose
\* iterdir() raises PermissionError; the error leaves through every caller.
RECURSIVE list_platform_folders(_, _, _, _)
RECURSIVE subfolders(_, _, _, _)
subfolders(kids, max_depth, rev, unreadable) ==
    IF kids = << >> THEN Found(<< >>)
    ELSE LET head == list_platform_folders(Head(kids), max_depth - 1, rev, unreadable)
             rest == subfolders(Tail(kids), max_depth, rev, unreadable)
         IN  IF head.raised THEN head
             ELSE IF rest.raised THEN rest
             ELSE Found(head.value \o rest.value)

list_platform_folders(path, max_depth, rev, unreadable) ==
    IF has_platform(path) THEN Found(<<path>>)
    ELSE IF max_depth = 0 THEN Found(<< >>)
    ELSE IF path \in unreadable THEN ScanRaised("PermissionError")
    ELSE subfolders(iterdir(path, rev), max_depth, rev, unreadable)

Range(s) == {s[i] : i \in 1..Len(s)}

\* [item for item in item_folders if item.parent == folder and get_item_info(item) == type]
bucket(item_folders, folder, type) ==
    LET Is(item) == parent(item) = folder /\ get_item_info(item) = type
    IN  SelectSeq(item_folders, Is)

group_items_first(item_folders) ==
    [folder \in {parent(item_folders[i]) : i \in {1} \cap DOMAIN item_folders} |->
        [Report |-> bucket(item_folders, folder, "Report"),
         SemanticModel |-> bucket(item_folders, folder, "SemanticModel")]]

\* The body of list_items after the scan: one entry per holding folder.
group_items(item_folders) ==
    [folder \in {parent(f) : f \in Range(item_folders)} |->
        [Report |-> bucket(item_folders, folder, "Report"),
         SemanticModel |-> bucket(item_folders, folder, "SemanticModel")]]

list_items(path, rev, unreadable) ==
    LET scan == list_platform_folders(path, ListItemsDepth, rev, unreadable)
    IN  IF scan.raised THEN [raised |-> TRUE, error |-> scan.error,
                             item_folders |-> << >>, value |-> EmptyDict]
        ELSE [raised |-> FALSE, error |-> "none",
              item_folders |-> scan.value, value |-> group_items(scan.value)]

----
\* Inputs.

SeqsUpTo(S, n) == UNION {[1..k -> S] : k \in 0..n}

NoRun == [kind |-> "none", fault |-> "none", returncode |-> 0, stdout |-> << >>,
          results |-> << >>, n_visuals |-> 0]

ModelRun(fault, returncode, stdout) ==
    [kind |-> "model", fault |-> fault, returncode |-> returncode, stdout |-> stdout,
     results |-> << >>, n_visuals |-> 0]

VisualsRun(fault, returncode, results, n_visuals) ==
    [kind |-> "visuals", fault |-> fault, returncode |-> returncode, stdout |-> << >>,
     results |-> results, n_visuals |-> n_visuals]

\* A run of the Tabular Editor tool: it times out, cannot be started, or
\* completes with an exit status and a stdout.
ModelRuns ==
    {ModelRun(f, 0, << >>) : f \in {"timeout", "oserror"}}
    \cup {ModelRun("none", rc, out) : rc \in {0, 1}, out \in SeqsUpTo(Tokens, MaxStdoutLen)}

Actuals == {ActualFalse} \cup {ActualList([i \in 1..k |-> "visual"]) : k \in 0..MaxActualLen}

Findings == [LogType : {0, 1, 2}, Actual : Actuals]

\* A run of the PBI Inspector tool with what it leaves behind.
VisualsRuns ==
    {VisualsRun(f, 0, << >>, 0) : f \in {"timeout", "oserror", "rules", "nofile", "noreport"}}
    \cup {VisualsRun("none", 1, << >>, 0)}
    \cup {VisualsRun("none", 0, rs, n) : rs \in SeqsUpTo(Findings, MaxResults), n \in 0..MaxVisuals}

NoReport == [called |-> FALSE, before |-> TRUE, events |-> << >>, SUCCESS |-> TRUE,
             score |-> -1, error |-> "none", escaped |-> FALSE]

Called(before, out) ==
    [called |-> TRUE, before |-> before, events |-> out.events, SUCCESS |-> out.SUCCESS,
     score |-> out.score, error |-> out.error, escaped |-> out.escaped]

NoScan == [path |-> << >>, max_depth |-> 0, rev |-> FALSE]
NoFound == [called |-> FALSE, raised |-> FALSE, value |-> << >>]
NoGroup == [called |-> FALSE, raised |-> FALSE, item_folders |-> << >>, value |-> EmptyDict]

NoLast == [op |-> "none", subject |-> << >>, events |-> << >>, error |-> "none",
           escaped |-> FALSE, before |-> TRUE, unreadable |-> {}]

Logged(op, subject, events, error, escaped, before, unreadable) ==
    [op |-> op, subject |-> subject, events |-> events, error |-> error,
     escaped |-> escaped, before |-> before, unreadable |-> unreadable]

MainIdle ==
    /\ n_paths = 0 /\ idx = 1 /\ missing = FALSE /\ pc = "idle"
    /\ items_dict = EmptyDict /\ todo = {} /\ models = << >> /\ reports = << >>
    /\ last = NoLast /\ attempted = {} /\ failed = {} /\ discovered = {}
    /\ exit_status = -1

MainVars == <<n_paths, idx, missing, pc, items_dict, todo, models, reports, last, attempted,
              failed, discovered, exit_status>>

----
\* One reporter call: a linter decorated with log_linter, on one tool run.

InitLint ==
    /\ MainIdle
    /\ ftype = [d \in Dirs |-> "None"]
    /\ SUCCESS \in BOOLEAN
    /\ lintIn \in ModelRuns \cup VisualsRuns
    /\ lintOut = NoReport
    /\ scanIn = NoScan /\ scanOut = NoFound /\ groupOut = NoGroup

ModelLinterCall ==
    /\ lintIn.kind = "model" /\ ~lintOut.called
    /\ LET out == log_linter(model_linter(lintIn), SUCCESS)
       IN  /\ lintOut' = Called(SUCCESS, out)
           /\ SUCCESS' = out.SUCCESS
    /\ UNCHANGED <<ftype, MainVars, lintIn, scanIn, scanOut, groupOut>>

VisualsLinterCall ==
    /\ lintIn.kind = "visuals" /\ ~lintOut.called
    /\ LET out == log_linter(visuals_linter(lintIn), SUCCESS)
       IN  /\ lintOut' = Called(SUCCESS, out)
           /\ SUCCESS' = out.SUCCESS
    /\ UNCHANGED <<ftype, MainVars, lintIn, scanIn, scanOut, groupOut>>

NextLint == ModelLinterCall \/ VisualsLinterCall

SpecLint == InitLint /\ [][NextLint]_vars

----
\* One scan and one grouping of a readable tree.

InitScan ==
    /\ MainIdle
    /\ ftype \in FileSystems
    /\ SUCCESS = TRUE
    /\ lintIn = NoRun /\ lintOut = NoReport
    /\ scanIn \in [path : Dirs, max_depth : 0..MaxDepthArg, rev : BOOLEAN]
    /\ scanOut = NoFound /\ groupOut = NoGroup

ScanCall ==
    /\ ~scanOut.called
    /\ LET r == list_platform_folders(scanIn.path, scanIn.max_depth, scanIn.rev, {})
       IN  scanOut' = [called |-> TRUE, raised |-> r.raised, value |-> r.value]
    /\ UNCHANGED <<ftype, MainVars, SUCCESS, lintIn, lintOut, scanIn, groupOut>>

GroupCall ==
    /\ ~groupOut.called
    /\ LET r == list_items(scanIn.path, scanIn.rev, {})
       IN  groupOut' = [called |-> TRUE, raised |-> r.raised,
                        item_folders |-> r.item_folders, value |-> r.value]
    /\ UNCHANGED <<ftype, MainVars, SUCCESS, lintIn, lintOut, scanIn, scanOut>>

NextScan == ScanCall \/ GroupCall

SpecScan == InitScan /\ [][NextScan]_vars

----
\* The process: main() over the root paths, run_linter on each existing one,
\* then sys.exit. The root paths are read off the command line one by one: the
\* loop draws each of them when it reaches it.

RootArgs == {<< >>, <<1>>, MissingPath}

\* What a reporter call can log, for every tool run and every value of SUCCESS.
ModelReports ==
    {[S |-> S, out |-> log_linter(model_linter(r), S)] : S \in BOOLEAN, r \in ModelRuns}

VisualsReports ==
    {[S |-> S, out |-> log_linter(visuals_linter(r), S)] : S \in BOOLEAN, r \in VisualsRuns}

Unreadables == {U \in SUBSET Dirs : Cardinality(U) <= 1}

ItemsOf(d) ==
    UNION {Range(d[folder].Report) \cup Range(d[folder].SemanticModel) : folder \in DOMAIN d}

Init ==
    /\ ftype \in FileSystems
    /\ n_paths \in 1..MaxRoots
    /\ idx = 1 /\ missing = FALSE /\ pc = "main"
    /\ items_dict = EmptyDict /\ todo = {} /\ models = << >> /\ reports = << >>
    /\ SUCCESS = TRUE
    /\ last = NoLast /\ attempted = {} /\ failed = {} /\ discovered = {}
    /\ exit_status = -1
    /\ lintIn = NoRun /\ lintOut = NoReport
    /\ scanIn = NoScan /\ scanOut = NoFound /\ groupOut = NoGroup

Aside == <<ftype, n_paths, lintIn, lintOut, scanIn, scanOut, groupOut>>

\* if not path.exists(): log_error(...); continue
PathMissing ==
    /\ pc = "main" /\ idx <= n_paths
    /\ \E path \in RootArgs :
        /\ ~exists(path)
        /\ LET e == log_error(SUCCESS)
           IN  /\ SUCCESS' = e.SUCCESS
               /\ last' = Logged("path", path, <<e.level>>, "none", FALSE, SUCCESS, {})
    /\ idx' = idx + 1
    /\ missing' = TRUE
    /\ UNCHANGED <<Aside, pc, items_dict, todo, models, reports, attempted, failed,
                   discovered, exit_status>>

\* run_linter(path) up to its loop: list_items raises (main logs the exception),
\* finds nothing (a warning), or returns the grouping to review.
RunLinter ==
    /\ pc = "main" /\ idx <= n_paths
    /\ \E path \in RootArgs, rev \in BOOLEAN, unreadable \in Unreadables :
        /\ exists(path)
        /\ LET r == list_items(path, rev, unreadable)
           IN  IF r.raised
               THEN LET e == log_exception(SUCCESS)
                    IN  /\ SUCCESS' = e.SUCCESS
                        /\ last' = Logged("scan", path, <<e.level>>, r.error, FALSE,
                                          SUCCESS, unreadable)
                        /\ idx' = idx + 1
                        /\ UNCHANGED <<pc, items_dict, todo, discovered>>
               ELSE IF r.value = EmptyDict
               THEN /\ last' = Logged("scan", path, <<"warning">>, "none", FALSE,
                                      SUCCESS, unreadable)
                    /\ idx' = idx + 1
                    /\ UNCHANGED <<SUCCESS, pc, items_dict, todo, discovered>>
               ELSE /\ last' = Logged("scan", path, << >>, "none", FALSE,
                                      SUCCESS, unreadable)
                    /\ items_dict' = r.value
                    /\ todo' = DOMAIN r.value
                    /\ discovered' = ItemsOf(r.value)
                    /\ pc' = "folders"
                    /\ UNCHANGED <<SUCCESS, idx>>
    /\ UNCHANGED <<Aside, missing, models, reports, attempted, failed, exit_status>>

\* for folder, items in items_dict.items(): logging.info(...)
ReviewFolder ==
    /\ pc = "folders" /\ todo # {}
    /\ \E folder \in todo :
        /\ models' = items_dict[folder].SemanticModel
        /\ reports' = items_dict[folder].Report
        /\ todo' = todo \ {folder}
        /\ last' = Logged("folder", folder, <<"info">>, "none", FALSE, SUCCESS, {})
    /\ pc' = "items"
    /\ UNCHANGED <<Aside, idx, missing, items_dict, SUCCESS, attempted, failed, discovered,
                   exit_status>>

\* One linter call of run_linter with its own try / except around the reporter.
Linted(op, item, out) ==
    LET e == log_exception(out.SUCCESS)
    IN  /\ SUCCESS' = IF out.escaped THEN e.SUCCESS ELSE out.SUCCESS
        /\ last' = Logged(op, item,
                          IF out.escaped THEN out.events \o <<e.level>> ELSE out.events,
                          out.error, out.escaped, SUCCESS, {})
        /\ attempted' = attempted \cup {item}
        /\ failed' = IF out.error # "none" THEN failed \cup {item} ELSE failed

\* for model in items['SemanticModel']: model_linter(model)
LintModel ==
    /\ pc = "items" /\ models # << >>
    /\ \E o \in ModelReports : o.S = SUCCESS /\ Linted("model", Head(models), o.out)
    /\ models' = Tail(models)
    /\ UNCHANGED <<Aside, idx, missing, pc, items_dict, todo, reports, discovered, exit_status>>

\* for report in items['Report']: visuals_linter(report, rules)
LintReport ==
    /\ pc = "items" /\ models = << >> /\ reports # << >>
    /\ \E o \in VisualsReports : o.S = SUCCESS /\ Linted("visuals", Head(reports), o.out)
    /\ reports' = Tail(reports)
    /\ UNCHANGED <<Aside, idx, missing, pc, items_dict, todo, models, discovered, exit_status>>

\* The end of a folder, and of run_linter after the last one (its locals go).
FolderDone ==
    /\ pc = "items" /\ models = << >> /\ reports = << >>
    /\ IF todo = {}
       THEN /\ pc' = "main" /\ idx' = idx + 1 /\ items_dict' = EmptyDict
            /\ attempted' = {} /\ failed' = {} /\ discovered' = {}
       ELSE /\ pc' = "folders"
            /\ UNCHANGED <<idx, items_dict, attempted, failed, discovered>>
    /\ last' = NoLast
    /\ UNCHANGED <<Aside, missing, todo, models, reports, SUCCESS, exit_status>>

\* sys.exit(0 if SUCCESS else 1)
Exit ==
    /\ pc = "main" /\ idx > n_paths
    /\ exit_status' = IF SUCCESS THEN 0 ELSE 1
    /\ pc' = "done"
    /\ UNCHANGED <<Aside, idx, missing, items_dict, todo, models, reports, SUCCESS, last,
                   attempted, failed, discovered>>

Next ==
    \/ PathMissing
    \/ RunLinter
    \/ ReviewFolder
    \/ LintModel
    \/ LintReport
    \/ FolderDone
    \/ Exit

Spec == Init /\ [][Next]_vars

----
\* Properties.

Lints == {"model", "visuals"}

Flips(events) == "error" \in Range(events) \/ "exception" \in Range(events)

\* What C1 asks of every state.
C1_SuccessState ==
    /\ (pc = "main" /\ idx = 1) => SUCCESS = TRUE
    /\ Flips(last.events) => SUCCESS = FALSE
    /\ last.before = FALSE => SUCCESS = FALSE
    /\ pc = "done" <=> exit_status # -1
    /\ pc = "done" => exit_status = (IF SUCCESS THEN 0 ELSE 1)

\* C1: SUCCESS is true at process start; every step that logs an error-level or
\* exception-level event leaves it false; once false it is never true again,
\* whatever is linted or scanned later; and the exit status is 0 exactly when
\* it is still true at the end, 1 otherwise.
C1_SuccessMonotone == []C1_SuccessState /\ [][SUCCESS = FALSE => SUCCESS' = FALSE]_vars

\* After an earlier failure the last root path holds no items (a warning only)
\* and the process still exits with status 1.
C1_Witness ==
    /\ pc = "done" /\ exit_status = 1 /\ SUCCESS = FALSE
    /\ last.op = "scan" /\ last.before = FALSE /\ last.events = <<"warning">>

\* The three tiers of C2, for one score.
C2_Tier(score, events, before, after) ==
    /\ score >= 800 => events = <<"info">> /\ after = before
    /\ (600 <= score /\ score < 800) => events = <<"warning">> /\ after = before
    /\ score < 600 => events = <<"error">> /\ after = FALSE

\* C2: the reporter classifies a yielded score with boundaries closed below:
\* score >= 8 logs 'excellent' at info level, 6 <= score < 8 logs 'needs
\* attention' at warning level, score < 6 logs 'poor' at error level; SUCCESS
\* becomes false in the last case and keeps its value in the other two.
C2_ScoreTiers ==
    /\ (lintOut.called /\ lintOut.error = "none") =>
           C2_Tier(lintOut.score, lintOut.events, lintOut.before, SUCCESS)
    /\ \A v \in ScoreSamples :
           (lintOut.called /\ lintIn.kind = "model" /\ lintIn.fault = "none"
                /\ lintIn.stdout = <<Tok("{"), ScoreTok(v), Tok("}")>>) =>
               lintOut.score = v /\ C2_Tier(v, lintOut.events, lintOut.before, SUCCESS)
    /\ (lintOut.called /\ lintIn.kind = "visuals" /\ lintIn.fault = "none"
            /\ lintIn.returncode = 0) =>
           lintOut.score = handle_pbii_output(lintIn.results, lintIn.n_visuals).score.v

\* A score of 5.99 is reported as poor and flips SUCCESS.
C2_Witness ==
    /\ lintOut.called /\ lintOut.score = 599
    /\ lintOut.before = TRUE /\ SUCCESS = FALSE /\ lintOut.events = <<"error">>

\* The items run_linter has still to lint.
Pending ==
    Range(models) \cup Range(reports) \cup ItemsOf([f \in todo |-> items_dict[f]])

\* C3: an error raised by a linter (timeout, crash, unparseable output, invalid
\* rules file, missing score) is caught by the reporter, which logs exactly one
\* exception-level event, leaves SUCCESS false and returns normally; nothing
\* escapes it, no item of the grouping is dropped, and the loop over the root
\* paths runs to its end.
C3_FailuresContained ==
    /\ last.op \in Lints => ~last.escaped
    /\ (last.op \in Lints /\ last.error # "none") =>
           last.events = <<"exception">> /\ SUCCESS = FALSE
    /\ pc \in {"folders", "items"} =>
           /\ discovered = attempted \cup Pending
           /\ attempted \cap Pending = {}
           /\ failed \subseteq attempted
    /\ (last.op \in Lints /\ last.error # "none") =>
           (last.subject \in failed /\ pc = "items")
    /\ pc = "done" => idx = n_paths + 1

\* After a linter raised on one item, a later item of the same root is linted
\* and scored.
C3_Witness ==
    /\ failed # {} /\ last.op \in Lints /\ last.error = "none"
    /\ last.subject \in attempted \ failed

\* The PBI Inspector run completed and handle_pbii_output is reached.
C4_Applies == lintIn.kind = "visuals" /\ lintIn.fault = "none" /\ lintIn.returncode = 0

\* C4: the score of handle_pbii_output is 0 when there are no visuals, whatever
\* the penalty p, and otherwise max(10 - 5 * p / n, 0) rounded to the nearest
\* hundredth; it always lies between 0 and 10.
C4_ScoreFormula ==
    C4_Applies =>
        LET out == handle_pbii_output(lintIn.results, lintIn.n_visuals)
            p == out.penalty
            n == lintIn.n_visuals
            sc == out.score.v
            exact == 1000 * n - 500 * p
            diff == sc * n - exact
        IN  /\ p >= 0 /\ out.objects = n
            /\ 0 <= sc /\ sc <= 1000
            /\ n = 0 => sc = 0
            /\ (n > 0 /\ exact <= 0) => sc = 0
            /\ (n > 0 /\ exact > 0) => (2 * diff <= n /\ 2 * diff >= 0 - n)
            /\ lintOut.called => lintOut.score = sc

\* One warning finding over 8 visuals: 10 - 5/8 = 9.375, reported as 9.38.
C4_Witness ==
    /\ lintOut.called /\ C4_Applies /\ lintIn.n_visuals = 8
    /\ handle_pbii_output(lintIn.results, lintIn.n_visuals).penalty = 1
    /\ lintOut.score = 938

\* The findings of the records with a LogType in `logtypes`, summed.
C5_Count(r) == IF r.Actual = ActualFalse THEN 5 ELSE Len(r.Actual.items)

RECURSIVE C5_Total(_, _)
C5_Total(results, logtypes) ==
    IF results = << >> THEN 0
    ELSE (IF Head(results).LogType \in logtypes THEN C5_Count(Head(results)) ELSE 0)
         + C5_Total(Tail(results), logtypes)

C5_Scenario == <<[LogType |-> 0, Actual |-> ActualFalse]>>

\* C5: handle_pbii_output counts a record as 5 findings when its Actual is the
\* boolean false and as len(Actual) otherwise, adds the count to errors for
\* LogType 0, to warnings for LogType 1 and to infos for any other LogType, and
\* the penalty is 2 * errors + warnings; infos add nothing to it.
C5_Aggregation ==
    C4_Applies =>
        LET out == handle_pbii_output(lintIn.results, lintIn.n_visuals)
        IN  /\ out.errors = C5_Total(lintIn.results, {0})
            /\ out.warnings = C5_Total(lintIn.results, {1})
            /\ out.infos = C5_Total(lintIn.results, {2})
            /\ out.penalty = 2 * out.errors + out.warnings
            /\ (lintIn.results = C5_Scenario /\ lintIn.n_visuals = 2) =>
                   (out.penalty = 10 /\ out.score.v = 0)

\* The scenario: one failed error-level check over 2 visuals is reported as poor.
C5_Witness ==
    /\ lintOut.called /\ C4_Applies
    /\ lintIn.results = C5_Scenario /\ lintIn.n_visuals = 2
    /\ lintOut.score = 0 /\ lintOut.events = <<"error">> /\ SUCCESS = FALSE

\* The folders the scan is to return.
Marked(d) == ftype[d] # "None"

C6_Expected(root, max_depth) ==
    {d \in Dirs :
        /\ IsPrefix(root, d) /\ Len(d) - Len(root) <= max_depth
        /\ Marked(d)
        /\ \A a \in Dirs : (IsPrefix(root, a) /\ IsPrefix(a, d) /\ a # d) => ~Marked(a)}

\* C6: list_platform_folders(root, max_depth) returns, each once, exactly the
\* marked folders at most max_depth levels below root with no marked folder
\* strictly above them on the path from root; so no two results are ancestor
\* and descendant, a marked root yields [root] and max_depth 0 on an unmarked
\* root yields nothing.
C6_ScanExact ==
    scanOut.called =>
        LET found == scanOut.value
        IN  /\ ~scanOut.raised
            /\ Range(found) = C6_Expected(scanIn.path, scanIn.max_depth)
            /\ Cardinality(Range(found)) = Len(found)
            /\ \A i, j \in 1..Len(found) : i # j => ~IsPrefix(found[i], found[j])
            /\ Marked(scanIn.path) => found = <<scanIn.path>>
            /\ (~Marked(scanIn.path) /\ scanIn.max_depth = 0) => found = << >>

\* A scan that returns an item and leaves out a marked folder below the root,
\* because it is nested in an item or lies too deep.
C6_Witness ==
    /\ scanOut.called /\ scanOut.value # << >>
    /\ \E d \in Dirs : IsPrefix(scanIn.path, d) /\ Marked(d) /\ d \notin Range(scanOut.value)

\* The orders in which the same items can be discovered.
C7_Perms(items) ==
    {q \in [1..Len(items) -> Range(items)] : Range(q) = Range(items)}

\* C7: grouping does not depend on the discovery order: for every permutation
\* of the discovered items, list_items' grouping of the permuted list is
\* identical: same containers, same type buckets, same bucket contents.
C7_IdenticalGrouping ==
    groupOut.called =>
        \A q \in C7_Perms(groupOut.item_folders) : group_items(q) = groupOut.value

\* Two buckets with the same items, each once, in the order of `order`.
C7_InOrder(sub, whole) ==
    \A i, j \in 1..Len(sub) : i < j =>
        \E k, l \in 1..Len(whole) : k < l /\ whole[k] = sub[i] /\ whole[l] = sub[j]

C7_SameBucket(a, b, order) ==
    /\ Range(a) = Range(b)
    /\ Len(a) = Len(b)
    /\ Cardinality(Range(a)) = Len(a)
    /\ C7_InOrder(a, order)

\* C7 as amended: the permuted grouping has the same containers and type
\* buckets, and each bucket holds the same items, each once; a bucket lists
\* them in discovery order, so only their order inside a bucket can differ.
C7_GroupingUpToOrder ==
    groupOut.called =>
        \A q \in C7_Perms(groupOut.item_folders) :
            LET g == group_items(q)
            IN  /\ DOMAIN g = DOMAIN groupOut.value
                /\ \A folder \in DOMAIN g :
                    /\ C7_SameBucket(g[folder].Report, groupOut.value[folder].Report, q)
                    /\ C7_SameBucket(g[folder].SemanticModel,
                                     groupOut.value[folder].SemanticModel, q)

\* Two items of one type side by side in a folder: their bucket has two orders.
C7_Witness ==
    /\ groupOut.called
    /\ \E folder \in DOMAIN groupOut.value :
           Len(groupOut.value[folder].Report) >= 2
           \/ Len(groupOut.value[folder].SemanticModel) >= 2

\* C8: a root path that does not exist logs one error-level event and leaves
\* SUCCESS false; nothing is scanned, grouped or linted for it; the other root
\* paths are still processed to the end and the process exits with status 1.
C8_MissingRoot ==
    /\ last.op = "path" =>
           /\ last.events = <<"error">> /\ SUCCESS = FALSE /\ missing
           /\ pc \in {"main", "done"}
           /\ items_dict = EmptyDict /\ todo = {} /\ models = << >> /\ reports = << >>
           /\ discovered = {} /\ attempted = {}
    /\ missing => SUCCESS = FALSE
    /\ (pc = "items" /\ models = << >> /\ reports = << >> /\ todo = {}) =>
           attempted = discovered
    /\ pc = "done" => (idx = n_paths + 1 /\ (missing => exit_status = 1))

\* After a missing root path, the items of a later root have all been linted.
C8_Witness ==
    /\ missing /\ last.op \in Lints
    /\ discovered # {} /\ attempted = discovered

\* The items of the readable subtrees, as C9 has the scan return them.
C9_Recognised(items) == {d \in Range(items) : ftype[d] \in {"Report", "SemanticModel"}}

C9_Readable ==
    C9_Recognised(list_platform_folders_skips(
        last.subject, ListItemsDepth, FALSE, last.unreadable).value)

\* C9: a directory that cannot be read contributes no items: the scan still
\* returns the items of the readable subtrees, they are grouped for linting,
\* and SUCCESS keeps its value.
C9_UnreadableSkipped ==
    (last.op = "scan" /\ last.unreadable # {} /\ C9_Readable # {}) =>
        /\ SUCCESS = last.before
        /\ last.error = "none"
        /\ discovered = C9_Readable

\* Some "{" ... "}" of the stdout is a JSON object.
C10_ParsesAt(stdout, i, j) ==
    /\ i < j /\ stdout[i].c = "{" /\ stdout[j].c = "}"
    /\ \A k \in (i + 1)..(j - 1) : IsMember(stdout[k])

C10_HasJsonObject(stdout) ==
    \E i, j \in 1..Len(stdout) : C10_ParsesAt(stdout, i, j)

C10_IsFailure == lintOut.events = <<"exception">> /\ SUCCESS = FALSE /\ lintOut.score = -1

C10_Completed == lintOut.called /\ lintIn.kind = "model" /\ lintIn.fault = "none"

\* C10: for the Tabular Editor run, a non-zero exit status or a stdout without
\* a parseable JSON object is a failure of the item's check: an exception-level
\* event, SUCCESS false, never a scored result.
C10_ExitOrNoJsonFails ==
    (C10_Completed /\ (lintIn.returncode # 0 \/ ~C10_HasJsonObject(lintIn.stdout))) =>
        C10_IsFailure

\* The text from the first "{" to the last "}" is an object with a numeric score.
C10_ScoreMembers(stdout) ==
    {k \in 1..Len(stdout) :
        /\ stdout[k].c \in {"s", "j"}
        /\ \E i \in Positions(stdout, "{") : i < k
        /\ \E j \in Positions(stdout, "}") : k < j}

C10_Scorable(stdout) ==
    LET opens == Positions(stdout, "{")
        closes == Positions(stdout, "}")
    IN  /\ opens # {} /\ closes # {}
        /\ C10_ParsesAt(stdout, Min(opens), Max(closes))
        /\ C10_ScoreMembers(stdout) # {}
        /\ stdout[Max(C10_ScoreMembers(stdout))].c = "s"

\* C10 as amended: a run that times out or cannot start, or a stdout whose text
\* from the first "{" to the last "}" is missing or is no JSON object with a
\* numeric score, is such a failure; the exit status alone is not: the tool runs
\* with check=False and a stdout that carries such an object is scored whatever
\* the exit status.
C10_OutputDecides ==
    /\ (lintOut.called /\ lintIn.kind = "model" /\ lintIn.fault # "none") => C10_IsFailure
    /\ (C10_Completed /\ ~C10_HasJsonObject(lintIn.stdout)) => C10_IsFailure
    /\ (C10_Completed /\ ~C10_Scorable(lintIn.stdout)) => C10_IsFailure
    /\ (C10_Completed /\ C10_Scorable(lintIn.stdout)) =>
           /\ lintOut.error = "none"
           /\ lintOut.score = lintIn.stdout[Max(C10_ScoreMembers(lintIn.stdout))].v
           /\ lintOut.events \in {<<"info">>, <<"warning">>, <<"error">>}

\* The tool exits with status 1, prints {"score": 8.0} and is reported excellent.
C10_Witness ==
    /\ C10_Completed /\ lintIn.returncode = 1
    /\ lintOut.events = <<"info">> /\ lintOut.score = 800

====
